---- MODULE Spec2Model ----
(***************************************************************************)
(* Model of the real-time transcription pipeline of LocalTestBot           *)
(* (src/test_team_bot_locally.py) and of the session registry of           *)
(* TeamsTranscriptionBot (src/team_bot.py).                                *)
(*                                                                         *)
(* One asyncio event loop runs the websocket handlers, the webhook         *)
(* handlers, the dispatcher tasks (_process_speech_results) and the        *)
(* scripted mock tasks.  A task holds the loop from one await to the next, *)
(* so each action below is one such segment.  The recognizer callbacks and *)
(* the network peer run outside the loop.                                  *)
(***************************************************************************)
EXTENDS Naturals, Sequences, FiniteSets, Bags, TLC

\* ------------------------------------------------------------------ bounds
\* control frames (start_transcription / stop_transcription) answered, all
\* connections together
MaxCtl == 2
\* recognition events the recognizers put on the queue, all sessions together
MaxEvents == 3
\* words in the text of a translation request
MaxWords == 2
\* transcripts the bot stores
MaxTranscripts == 6
\* binary audio frames a connection receives
MaxAudio == 3

\* ------------------------------------------------------------- identifiers
\* duplex connections; the session id of a connection is made at connect time
\* (f"ws-session-{timestamp}") and is modelled by the connection's name
Conns == {"ws1", "ws2"}
\* conversation ids used by webhook activities
ConvIds == {"conv1"}
Ids == Conns \cup ConvIds
NoTask == "none"

\* a text is the sequence of its characters.  The words of the source
\* language are written in Latin letters.
w_mama == <<"m", "a", "m", "a">>
w_oba == <<"o", "b", "a">>
w_api == <<"a", "p", "i">>
w_wada == <<"w", "a", "d", "a">>
w_kohomada == <<"k", "o", "h", "o", "m", "a", "d", "a">>
w_inne == <<"i", "n", "n", "e">>
w_saha == <<"s", "a", "h", "a">>
w_thawa == <<"t", "h", "a", "w", "a">>
w_eka == <<"e", "k", "a">>
w_samagama == <<"s", "a", "m", "a", "g", "a", "m", "a">>
w_vyapara == <<"v", "y", "a", "p", "a", "r", "a">>
w_sewa == <<"s", "e", "w", "a">>
w_ma == <<"m", "a">>
w_x == <<"x">>

\* texts the recognizer reports, one per event, in the order of the events
Utterances == <<w_mama, w_api, w_oba, w_wada, w_thawa, w_eka, w_saha>>
MockPartialText == <<"k", "o", "h", "o", "m", "a", "d", "a">>
MockFinalText ==
    <<"k", "o", "h", "o", "m", "a", "d", "a", " ", "o", "b", "a", "t", "a",
      "?">>

VARIABLES
    speech_key,            \* AZURE_SPEECH_KEY: "mock_value" or "key"
    sdk,                   \* how far the speech SDK calls of a start get
    wsState,               \* per connection: "none", "open", "closing", "closed"
    recognizer,            \* handler local `recognizer` (audio_stream goes with it)
    recRunning,            \* per session: recognizers started and not stopped
    active_websockets,     \* keys of self.active_websockets
    active_sessions,       \* self.active_sessions, the session registry
    speech_results_queue,  \* self.speech_results_queue
    putLog,                \* per session: the events its recognizers have put
    out,                   \* per connection: the frames sent on it, in order
    dispReady,             \* per session: dispatcher tasks at the top of the loop
    spinning,              \* session whose dispatcher holds the loop, or NoTask
    spinPass,              \* parity of the put-back passes that task has made
    storePending,          \* bag of finals sent and not yet stored
    mockWait2,             \* per connection: mock tasks in the first sleep
    mockWait1,             \* per connection: mock tasks in the second sleep
    bot,                   \* "unbuilt", "built", or "ValueError" from __init__
    translator_key,        \* AZURE_TRANSLATOR_KEY: "", "mock_value" or "key"
    translation_client,    \* self.translation_client: "None" or "client"
    response,              \* the last HTTP response sent
    summary,               \* body of the last summary card sent
    clock,                 \* datetime.now(), in transcriptions stored
    audio,                 \* per connection: binary frames received, and
                           \* the frames its input streams took, in order
    thread_error           \* exception raised on a recognizer's thread

\* what the websocket pipeline never touches
botVars == <<bot, translator_key, translation_client, response, summary, clock>>

vars == <<speech_key, sdk, wsState, recognizer, recRunning, active_websockets,
          active_sessions, speech_results_queue, putLog, out, dispReady,
          spinning, spinPass, storePending, mockWait2, mockWait1, botVars,
          audio, thread_error>>

\* --------------------------------------------------------------- registry
Absent == [present |-> FALSE, status |-> "", start_time |-> FALSE,
           end_time |-> FALSE, transcriptions |-> <<>>]

\* a start that keeps the entry the registry already has
StartIfAbsent(sessions, id) ==
    IF sessions[id].present THEN sessions
    ELSE [sessions EXCEPT ![id] = [present |-> TRUE, status |-> "active",
                                   start_time |-> TRUE, end_time |-> FALSE,
                                   transcriptions |-> <<>>]]

\* self.active_sessions[session_id] = {start_time, transcriptions: [], status: active}
start_transcription_session(sessions, id) ==
    [sessions EXCEPT ![id] = [present |-> TRUE, status |-> "active",
                              start_time |-> TRUE, end_time |-> FALSE,
                              transcriptions |-> <<>>]]

\* a stop that deletes the entry
StopDeletes(sessions, id) ==
    [sessions EXCEPT ![id] = Absent]

\* if session_id in self.active_sessions: status = 'stopped'; end_time = now
stop_transcription_session(sessions, id) ==
    IF sessions[id].present
    THEN [sessions EXCEPT ![id].status = "stopped", ![id].end_time = TRUE]
    ELSE sessions

\* GET /api/sessions/{id}: 200 with the entry, or 404
get_session_data(id) ==
    IF active_sessions[id].present THEN 200 ELSE 404

\* a store that puts the record at the head of the list
StorePrepends(sessions, id, rec) ==
    LET e == IF sessions[id].present THEN sessions[id]
             ELSE [Absent EXCEPT !.present = TRUE]
    IN [sessions EXCEPT ![id] =
            [e EXCEPT !.transcriptions = <<rec>> \o e.transcriptions]]

\* if session_id not in self.active_sessions: {'transcriptions': []}; append
StoreTranscription(sessions, id, rec) ==
    LET e == IF sessions[id].present THEN sessions[id]
             ELSE [Absent EXCEPT !.present = TRUE]
    IN [sessions EXCEPT ![id] =
            [e EXCEPT !.transcriptions = Append(e.transcriptions, rec)]]

\* --------------------------------------------------------- str methods
\* sub in s
Contains(s, sub) ==
    /\ Len(sub) <= Len(s)
    /\ \E i \in 0..(Len(s) - Len(sub)) : SubSeq(s, i + 1, i + Len(sub)) = sub

StartsWith(s, prefix) ==
    Len(prefix) <= Len(s) /\ SubSeq(s, 1, Len(prefix)) = prefix

\* s.replace(old, new)
RECURSIVE Replace(_, _, _)
Replace(s, old, new) ==
    IF s = <<>> THEN <<>>
    ELSE IF StartsWith(s, old)
    THEN new \o Replace(SubSeq(s, Len(old) + 1, Len(s)), old, new)
    ELSE <<Head(s)>> \o Replace(Tail(s), old, new)

\* s.split(): the runs of characters between whitespace
RECURSIVE SplitFrom(_, _)
SplitFrom(s, word) ==
    IF s = <<>> THEN (IF word = <<>> THEN <<>> ELSE <<word>>)
    ELSE IF Head(s) = " "
    THEN (IF word = <<>> THEN <<>> ELSE <<word>>) \o SplitFrom(Tail(s), <<>>)
    ELSE SplitFrom(Tail(s), Append(word, Head(s)))

Split(s) == SplitFrom(s, <<>>)

\* s.strip()
RECURSIVE LStrip(_)
LStrip(s) == IF s # <<>> /\ Head(s) = " " THEN LStrip(Tail(s)) ELSE s

RECURSIVE RStrip(_)
RStrip(s) ==
    IF s # <<>> /\ s[Len(s)] = " " THEN RStrip(SubSeq(s, 1, Len(s) - 1)) ELSE s

Strip(s) == RStrip(LStrip(s))

\* sep.join(parts)
RECURSIVE Join(_, _)
Join(parts, sep) ==
    IF parts = <<>> THEN <<>>
    ELSE IF Len(parts) = 1 THEN parts[1]
    ELSE parts[1] \o sep \o Join(Tail(parts), sep)

UpperOf ==
    [a |-> "A", b |-> "B", c |-> "C", d |-> "D", e |-> "E", f |-> "F", g |->
     "G", h |-> "H", i |-> "I", j |-> "J", k |-> "K", l |-> "L", m |-> "M", n
     |-> "N", o |-> "O", p |-> "P", q |-> "Q", r |-> "R", s |-> "S", t |->
     "T", u |-> "U", v |-> "V", w |-> "W", x |-> "X", y |-> "Y", z |-> "Z"]

LowerOf ==
    [A |-> "a", B |-> "b", C |-> "c", D |-> "d", E |-> "e", F |-> "f", G |->
     "g", H |-> "h", I |-> "i", J |-> "j", K |-> "k", L |-> "l", M |-> "m", N
     |-> "n", O |-> "o", P |-> "p", Q |-> "q", R |-> "r", S |-> "s", T |->
     "t", U |-> "u", V |-> "v", W |-> "w", X |-> "x", Y |-> "y", Z |-> "z"]

\* ch.upper(), ch.lower()
Upper(ch) == IF ch \in DOMAIN UpperOf THEN UpperOf[ch] ELSE ch
Lower(ch) == IF ch \in DOMAIN LowerOf THEN LowerOf[ch] ELSE ch
IsLetter(ch) == ch \in DOMAIN UpperOf \/ ch \in DOMAIN LowerOf

\* s.lower()
LowerStr(s) == [i \in 1..Len(s) |-> Lower(s[i])]

\* s.title()
Title(s) ==
    [i \in 1..Len(s) |->
        IF i = 1 \/ ~IsLetter(s[i - 1]) THEN Upper(s[i]) ELSE Lower(s[i])]

\* if text: text = text[0].upper() + text[1:]
CapitalizeFirst(s) == IF s = <<>> THEN s ELSE <<Upper(s[1])>> \o Tail(s)

\* for old, new in table: s = s.replace(old, new)
RECURSIVE ReplaceAll(_, _)
ReplaceAll(s, table) ==
    IF table = <<>> THEN s
    ELSE ReplaceAll(Replace(s, table[1][1], table[1][2]), Tail(table))

\* ------------------------------------------------------------ translation
\* the result of a call: a value returned or an exception raised
Return(v) == [raised |-> FALSE, value |-> v]
Raise == [raised |-> TRUE, value |-> <<>>]

e_I == <<"I">>
e_you == <<"y", "o", "u">>
e_we == <<"w", "e">>
e_work == <<"w", "o", "r", "k">>
e_how == <<"h", "o", "w">>
e_am_is_are == <<"a", "m", "/", "i", "s", "/", "a", "r", "e">>
e_and == <<"a", "n", "d">>
e_more == <<"m", "o", "r", "e">>
e_that == <<"t", "h", "a", "t">>
e_company == <<"c", "o", "m", "p", "a", "n", "y">>
e_business == <<"b", "u", "s", "i", "n", "e", "s", "s">>

\* the dict `translations` of _enhanced_translate, in its order, for the
\* words of the model
translations ==
    << <<w_mama, e_I>>, <<w_oba, e_you>>, <<w_api, e_we>>,
       <<w_samagama, e_company>>, <<w_vyapara, e_business>>,
       <<w_wada, e_work>>, <<w_kohomada, e_how>>, <<w_inne, e_am_is_are>>,
       <<w_saha, e_and>>, <<w_thawa, e_more>>, <<w_eka, e_that>> >>

\* for sinhala_key, english_value in translations.items():
\*     if sinhala_key in word_clean or word_clean in sinhala_key: ... break
BestMatch(word_clean) ==
    LET hits == {k \in 1..Len(translations) :
                    \/ Contains(word_clean, translations[k][1])
                    \/ Contains(translations[k][1], word_clean)}
    IN IF hits = {} THEN <<>>
       ELSE translations[CHOOSE k \in hits : \A j \in hits : k <= j][2]

\* the replacements of _apply_basic_grammar, in order
grammar_rules ==
    << << <<"I", " ", "a", "m", " ", "l", "e", "a", "r", "n", "i", "n", "g",
       " ", "b", "o", "t", "h", " ", "T", "a", "m", "i", "l", " ", "a", "n",
       "d", " ", "S", "i", "n", "h", "a", "l", "a">>, <<"I", "'", "m", " ",
       "l", "e", "a", "r", "n", "i", "n", "g", " ", "b", "o", "t", "h", " ",
       "T", "a", "m", "i", "l", " ", "a", "n", "d", " ", "S", "i", "n", "h",
       "a", "l", "a">> >>, << <<"I", " ", "a", "m">>, <<"I", "'", "m">> >>,
       << <<"n", "e", "e", "d", " ", "t", "o", " ", "w", "r", "i", "t",
       "e">>, <<"n", "e", "e", "d", " ", "t", "o", " ", "w", "r", "i", "t",
       "e">> >> >>

apply_basic_grammar(text) == CapitalizeFirst(ReplaceAll(text, grammar_rules))

TranslationNeeded ==
    <<"[", "T", "r", "a", "n", "s", "l", "a", "t", "i", "o", "n", " ", "n",
      "e", "e", "d", "e", "d", ":", " ">>

\* _enhanced_translate
enhanced_translate(sinhala_text) ==
    LET words == Split(sinhala_text)
        english_parts ==
            [i \in 1..Len(words) |->
                LET word_clean == Strip(words[i])
                    best_match == BestMatch(word_clean)
                IN IF best_match # <<>> THEN best_match
                   ELSE <<"[">> \o word_clean \o <<"]">>]
        joined == Strip(Replace(Join(english_parts, <<" ">>),
                                <<" ", " ">>, <<" ">>))
        result == apply_basic_grammar(joined)
    IN IF result # <<>> THEN result
       ELSE TranslationNeeded \o sinhala_text \o <<"]">>

\* the dict `corrections` of _post_process_translation, in its order
corrections ==
    << << <<"l", "e", "o", "p", "a", "r", "d", " ", "e", "y", "e", "s">>,
       <<"V", "B", "S">> >>, << <<"t", "i", "r", " ", "r", "e", "s">>, <<"t",
       "i", "r", "e", "s">> >>, << <<"c", " ", "c", "o", "m", "p", "a", "n",
       "y">>, <<"C", "J", " ", "c", "o", "m", "p", "a", "n", "y">> >>,
       << <<"i", " ", "s", "e", "l", "l", " ", "t", "i", "r", "e", "s", " ",
       "a", "t">>, <<"I", " ", "w", "o", "r", "k", " ", "s", "e", "l", "l",
       "i", "n", "g", " ", "t", "i", "r", "e", "s", " ", "a", "t">> >>,
       << <<"m", "a", "k", "i", "n", "g", " ", "m", "y", "s", "e", "l", "f",
       " ", "a", " ", "t", "r", "a", "n", "s", "l", "a", "t", "o", "r">>,
       <<"b", "u", "i", "l", "d", "i", "n", "g", " ", "a", " ", "t", "r",
       "a", "n", "s", "l", "a", "t", "o", "r">> >>, << <<"g", "e", "t", " ",
       "r", "i", "d", " ", "o", "f", " ", "i", "t">>, <<"r", "e", "m", "o",
       "v", "e", " ", "t", "h", "a", "t">> >>, << <<"c", "o", "m", "p", "a",
       "n", "y">>, <<"c", "o", "m", "p", "a", "n", "y">> >>, << <<"b", "u",
       "s", "i", "n", "e", "s", "s">>, <<"b", "u", "s", "i", "n", "e", "s",
       "s">> >>, << <<"s", "e", "r", "v", "i", "c", "e">>, <<"s", "e", "r",
       "v", "i", "c", "e">> >> >>

proper_nouns ==
    << <<"s", "r", "i", " ", "l", "a", "n", "k", "a">>, <<"s", "i", "n", "h",
       "a", "l", "a">>, <<"t", "a", "m", "i", "l">>, <<"v", "b", "s">>,
       <<"c", "j">> >>

\* _capitalize_properly
capitalize_properly(text) ==
    ReplaceAll(CapitalizeFirst(text),
               [i \in 1..Len(proper_nouns) |->
                    <<proper_nouns[i], Title(proper_nouns[i])>>])

BusinessHint ==
    <<" ", "(", "b", "u", "s", "i", "n", "e", "s", "s", " ", "c", "o", "n",
      "t", "e", "x", "t", ")">>

\* _post_process_translation; `raises` is an exception inside its try block
post_process_translation(sinhala_text, english_translation, raises) ==
    IF raises THEN english_translation
    ELSE LET processed == capitalize_properly(
                 ReplaceAll(LowerStr(english_translation), corrections))
         IN IF /\ \E w \in {w_samagama, w_vyapara, w_sewa} :
                      Contains(sinhala_text, w)
               /\ ~Contains(processed, e_company)
               /\ ~Contains(processed, e_business)
            THEN processed \o BusinessHint
            ELSE processed

\* the words request texts are made of: keys of the table, words that hold
\* a key or are held by one, a word that matches no key, and the empty word
\* (which doubles the whitespace around it)
Vocabulary == {w_mama, w_inne, w_samagama, w_ma, w_x, <<>>}

\* the texts of translation requests: up to MaxWords words joined by spaces
TestTexts ==
    {Join(ws, <<" ">>) : ws \in UNION {[1..n -> Vocabulary] : n \in 0..MaxWords}}

\* every text of the model
Texts ==
    {Utterances[i] : i \in 1..Len(Utterances)}
        \cup {MockPartialText, MockFinalText} \cup TestTexts

\* _enhanced_translate on the texts of the model
EnhancedOf == [t \in Texts |-> enhanced_translate(t)]

\* texts the remote service returns as translations[0].text
RawReplies ==
    {<<>>, <<"t", "a", "m", "i", "l", " ", "t", "i", "r", " ", "r", "e", "s">>}

\* _post_process_translation on the texts and the replies of the model
PostProcessOf ==
    [t \in Texts, raw \in RawReplies, raises \in BOOLEAN |->
        post_process_translation(t, raw, raises)]

\* what the remote translation call does: it raises, returns no result,
\* returns a result without translations, or returns the text `raw`
Remote(outcome, raw) == [outcome |-> outcome, raw |-> raw]
NoRemote == Remote("raises", <<>>)

\* what a remote call can do
Remotes ==
    {Remote(o, <<>>) : o \in {"raises", "no_result", "no_translations"}}
        \cup {Remote("translation", raw) : raw \in RawReplies}
        \cup {Remote("post_raises", raw) : raw \in RawReplies \ {<<>>}}

\* what the remote call of one translate_text can do: it is made only when
\* the translator is configured
RemotesNow ==
    IF translator_key = "" \/ translator_key = "mock_value"
    THEN {NoRemote} ELSE Remotes

\* the try block of translate_text
translate_try(text, remote) ==
    IF translator_key = "" \/ translator_key = "mock_value"
    THEN Return(EnhancedOf[text])
    ELSE IF translation_client = "None" \/ remote.outcome = "raises"
    THEN Raise
    ELSE IF remote.outcome \in {"no_result", "no_translations"}
    THEN Return(EnhancedOf[text])
    ELSE Return(PostProcessOf[text, remote.raw,
                              remote.outcome = "post_raises"])

\* translate_text without its except branch
TranslateNoExcept(text, remote) == translate_try(text, remote)

\* a translate_text whose result depends on the queue
TranslateSeesQueue(text, remote) ==
    IF speech_results_queue # <<>> THEN Return(<<>>)
    ELSE Return(EnhancedOf[text])

\* translate_text: except Exception: return await _enhanced_translate(text)
translate_text(text, remote) ==
    LET r == translate_try(text, remote)
    IN IF r.raised THEN Return(EnhancedOf[text]) ELSE r

\* ------------------------------------------------------------------ frames
Frame(t, x, y) == [type |-> t, text |-> x, translated |-> y]
StartedFrame == Frame("transcription_started", <<>>, <<>>)
StoppedFrame == Frame("transcription_stopped", <<>>, <<>>)
PartialFrame(text) == Frame("partial_result", text, <<>>)
TranslatedFrame(text, remote) ==
    Frame("final_result", text, translate_text(text, remote).value)
FinalFrame(text) == TranslatedFrame(text, NoRemote)
ErrorFrame(msg) == Frame("error", msg, <<>>)

CtlFramesOn(c) ==
    Cardinality({i \in 1..Len(out[c]) :
        out[c][i].type \in {"transcription_started", "transcription_stopped"}})

CtlFrames == CtlFramesOn("ws1") + CtlFramesOn("ws2")

TotalPuts == Len(putLog["ws1"]) + Len(putLog["ws2"])

LoopFree == spinning = NoTask

\* an HTTP response, with the request it answers and what was computed for it
Response(status, request, result) ==
    [status |-> status, request |-> request, result |-> result]

NoResponse == Response(0, [kind |-> "none"], Return(<<>>))

\* no connection, no session, no task, nothing sent
Idle ==
    /\ wsState = [c \in Conns |-> "none"]
    /\ recognizer = [c \in Conns |-> "None"]
    /\ recRunning = [c \in Conns |-> 0]
    /\ active_websockets = {}
    /\ active_sessions = [i \in Ids |-> Absent]
    /\ speech_results_queue = <<>>
    /\ putLog = [c \in Conns |-> <<>>]
    /\ out = [c \in Conns |-> <<>>]
    /\ dispReady = [c \in Conns |-> 0]
    /\ spinning = NoTask
    /\ spinPass = 0
    /\ storePending = EmptyBag
    /\ mockWait2 = [c \in Conns |-> 0]
    /\ mockWait1 = [c \in Conns |-> 0]
    /\ response = NoResponse
    /\ summary = <<>>
    /\ clock = 0
    /\ audio = [c \in Conns |-> [received |-> 0, written |-> <<>>]]
    /\ thread_error = "None"

\* the bot of the local test server, constructed, its translator unconfigured
Init ==
    /\ speech_key \in {"mock_value", "key"}
    /\ sdk \in IF speech_key = "key" THEN {"ok", "fail_early", "fail_late"}
               ELSE {"ok"}
    /\ bot = "built"
    /\ translator_key = "mock_value"
    /\ translation_client = "None"
    /\ Idle

\* ----------------------------------------------------------- connections
\* a client opens the duplex connection: ws.prepare, session_id made
Connect(c) ==
    /\ LoopFree
    /\ wsState[c] = "none"
    /\ c = "ws2" => wsState["ws1"] # "none"
    /\ wsState' = [wsState EXCEPT ![c] = "open"]
    /\ UNCHANGED <<audio, thread_error, botVars, spinPass, speech_key, sdk, recognizer, recRunning, active_websockets,
                   active_sessions, speech_results_queue, putLog, out,
                   dispReady, spinning, storePending, mockWait2, mockWait1>>

\* the peer closes the connection; the handler has not yet seen it
ClientClose(c) ==
    /\ wsState[c] = "open"
    /\ wsState' = [wsState EXCEPT ![c] = "closing"]
    /\ UNCHANGED <<audio, thread_error, botVars, spinPass, speech_key, sdk, recognizer, recRunning, active_websockets,
                   active_sessions, speech_results_queue, putLog, out,
                   dispReady, spinning, storePending, mockWait2, mockWait1>>

\* the recognizer the handler holds is stopped (a real one; a second stop of
\* it changes nothing)
StopHeld(c) ==
    IF recognizer[c] = "live"
    THEN /\ recognizer' = [recognizer EXCEPT ![c] = "stopped"]
         /\ recRunning' = [recRunning EXCEPT ![c] = @ - 1]
    ELSE UNCHANGED <<recognizer, recRunning>>

\* finally: stop the recognizer, close the stream, drop the table entry
Cleanup(c) ==
    /\ StopHeld(c)
    /\ active_websockets' = active_websockets \ {c}
    /\ wsState' = [wsState EXCEPT ![c] = "closed"]

\* the handler's loop ends on the closed connection and runs its finally
Teardown(c) ==
    /\ LoopFree
    /\ wsState[c] = "closing"
    /\ Cleanup(c)
    /\ UNCHANGED <<audio, thread_error, botVars, spinPass, speech_key, sdk, active_sessions, speech_results_queue, putLog,
                   out, dispReady, spinning, storePending, mockWait2, mockWait1>>

\* ---------------------------------------------------------------- start
\* _start_mock_transcription: create_task(mock_transcription()),
\* return "mock_recognizer", "mock_stream"
start_mock_transcription(c) ==
    /\ mockWait2' = [mockWait2 EXCEPT ![c] = @ + 1]
    /\ recognizer' = [recognizer EXCEPT ![c] = "mock_recognizer"]

\* _start_realtime_transcription; outcome is how far the SDK calls get
start_realtime_transcription(c, outcome) ==
    IF speech_key = "mock_value" \/ outcome = "fail_early"
    THEN /\ start_mock_transcription(c)
         /\ UNCHANGED <<recRunning, active_websockets, dispReady>>
    ELSE /\ active_websockets' = active_websockets \cup {c}
         /\ dispReady' = [dispReady EXCEPT ![c] = @ + 1]
         /\ IF outcome = "ok"
            THEN /\ recognizer' = [recognizer EXCEPT ![c] = "live"]
                 /\ recRunning' = [recRunning EXCEPT ![c] = @ + 1]
                 /\ UNCHANGED mockWait2
            ELSE /\ start_mock_transcription(c)
                 /\ UNCHANGED recRunning

\* websocket_handler, data['type'] == 'start_transcription'
ReceiveStart(c) ==
    /\ LoopFree
    /\ wsState[c] = "open"
    /\ CtlFrames < MaxCtl
    /\ start_realtime_transcription(c, sdk)
    /\ out' = [out EXCEPT ![c] = Append(@, StartedFrame)]
    /\ UNCHANGED <<audio, thread_error, botVars, spinPass, speech_key, sdk, wsState, active_sessions, speech_results_queue,
                   putLog, spinning, storePending, mockWait1>>

\* ----------------------------------------------------------------- stop
\* websocket_handler, data['type'] == 'stop_transcription'.  With the mock
\* recognizer (a str) recognizer.stop_continuous_recognition() raises
\* AttributeError: the handler's except logs it and finally closes.
ReceiveStop(c) ==
    /\ LoopFree
    /\ wsState[c] = "open"
    /\ CtlFrames < MaxCtl
    /\ IF recognizer[c] = "mock_recognizer"
       THEN /\ Cleanup(c)
            /\ UNCHANGED out
       ELSE /\ StopHeld(c)
            /\ active_websockets' = active_websockets \ {c}
            /\ out' = [out EXCEPT ![c] = Append(@, StoppedFrame)]
            /\ UNCHANGED wsState
    /\ UNCHANGED <<audio, thread_error, botVars, spinPass, speech_key, sdk, active_sessions, speech_results_queue, putLog,
                   dispReady, spinning, storePending, mockWait2, mockWait1>>

\* ------------------------------------------------------------ recognizer
Event(t, x, sid) == [type |-> t, text |-> x, session_id |-> sid]

\* recognizing_handler / recognized_handler / canceled_handler, on the
\* recognizer's thread: self.speech_results_queue.put({...})
RecognizerEmit(c, t) ==
    /\ recRunning[c] > 0
    /\ TotalPuts < MaxEvents
    /\ LET ev == Event(t, Utterances[TotalPuts + 1], c)
       IN /\ speech_results_queue' = Append(speech_results_queue, ev)
          /\ putLog' = [putLog EXCEPT ![c] = Append(@, ev)]
    /\ UNCHANGED <<audio, thread_error, botVars, spinPass, speech_key, sdk, wsState, recognizer, recRunning,
                   active_websockets, active_sessions, out, dispReady,
                   spinning, storePending, mockWait2, mockWait1>>

\* ------------------------------------------------------------ dispatcher
\* ws.send_str raises once the connection is closing or closed
CanSend(c) == wsState[c] = "open"

Pending(sid, frame, task) == [sid |-> sid, frame |-> frame, task |-> task]

\* _process_final_transcription up to the await of ws.send_str: translate,
\* send the frame; the store follows when the task is resumed.  A failing
\* send raises again in the except branch and the final is dropped.
process_final_transcription(text, c) ==
    IF CanSend(c)
    THEN \E remote \in RemotesNow :
             LET frame == TranslatedFrame(text, remote)
             IN /\ out' = [out EXCEPT ![c] = Append(@, frame)]
                /\ storePending' = storePending (+)
                       SetToBag({Pending(c, frame, "dispatcher")})
                /\ dispReady' = [dispReady EXCEPT ![c] = @ - 1]
    ELSE UNCHANGED <<out, storePending, dispReady>>

\* a handler that sends nothing for a partial result
HandleDropsPartial(result, c) ==
    IF result.type = "final"
    THEN process_final_transcription(result.text, c)
    ELSE /\ IF CanSend(c) /\ result.type = "error"
            THEN out' = [out EXCEPT ![c] = Append(@, ErrorFrame(result.text))]
            ELSE UNCHANGED out
         /\ UNCHANGED <<storePending, dispReady>>

\* a handler that lets the exception of a failing send end the task
HandleSendFailureEnds(result, c) ==
    IF c \notin active_websockets
    THEN UNCHANGED <<out, storePending, dispReady>>
    ELSE IF ~CanSend(c)
    THEN /\ dispReady' = [dispReady EXCEPT ![c] = @ - 1]
         /\ UNCHANGED <<out, storePending>>
    ELSE IF result.type = "final"
    THEN process_final_transcription(result.text, c)
    ELSE /\ out' = [out EXCEPT ![c] = Append(@,
                   IF result.type = "partial" THEN PartialFrame(result.text)
                   ELSE ErrorFrame(result.text))]
         /\ UNCHANGED <<storePending, dispReady>>

\* a handler that translates and stores a partial result like a final one
HandlePartialAsFinal(result, c) ==
    IF c \notin active_websockets
    THEN UNCHANGED <<out, storePending, dispReady>>
    ELSE IF result.type \in {"final", "partial"}
    THEN process_final_transcription(result.text, c)
    ELSE /\ IF CanSend(c)
            THEN out' = [out EXCEPT ![c] = Append(@, ErrorFrame(result.text))]
            ELSE UNCHANGED out
         /\ UNCHANGED <<storePending, dispReady>>

\* a handler that ends the session on an error event instead of sending it
HandleErrorEnds(result, c) ==
    IF c \notin active_websockets
    THEN UNCHANGED <<out, storePending, dispReady>>
    ELSE IF result.type = "final"
    THEN process_final_transcription(result.text, c)
    ELSE IF result.type = "error"
    THEN /\ dispReady' = [dispReady EXCEPT ![c] = @ - 1]
         /\ UNCHANGED <<out, storePending>>
    ELSE /\ IF CanSend(c)
            THEN out' = [out EXCEPT ![c] = Append(@, PartialFrame(result.text))]
            ELSE UNCHANGED out
         /\ UNCHANGED <<storePending, dispReady>>

\* _handle_speech_result: ws = self.active_websockets.get(session_id)
handle_speech_result(result, c) ==
    IF c \notin active_websockets
    THEN UNCHANGED <<out, storePending, dispReady>>
    ELSE IF result.type = "final"
    THEN process_final_transcription(result.text, c)
    ELSE /\ IF CanSend(c)
            THEN out' = [out EXCEPT ![c] = Append(@,
                      IF result.type = "partial" THEN PartialFrame(result.text)
                      ELSE ErrorFrame(result.text))]
            ELSE UNCHANGED out
         /\ UNCHANGED <<storePending, dispReady>>

\* a dispatcher that does not put back a result of another session
PutBackDrops(q, result) == Tail(q)

\* self.speech_results_queue.put(result) for a result of another session
PutBack(q, result) == Append(Tail(q), result)

\* a dispatcher that handles whatever result it takes, its own or not
ProcessAnyResult(c) ==
    /\ dispReady[c] > 0
    /\ spinning \in {NoTask, c}
    /\ IF c \notin active_websockets
       THEN /\ dispReady' = [dispReady EXCEPT ![c] = @ - 1]
            /\ UNCHANGED <<speech_results_queue, out, storePending>>
       ELSE IF speech_results_queue = <<>>
       THEN UNCHANGED <<speech_results_queue, out, storePending, dispReady>>
       ELSE /\ speech_results_queue' = Tail(speech_results_queue)
            /\ handle_speech_result(Head(speech_results_queue), c)
    /\ spinning' = NoTask
    /\ spinPass' = 0
    /\ UNCHANGED <<audio, thread_error, botVars, speech_key, sdk, wsState, recognizer, recRunning,
                   active_websockets, active_sessions, putLog, mockWait2,
                   mockWait1>>

\* one pass of the while loop of _process_speech_results(session_id).  The
\* branch that puts a result back has no await: the task keeps the loop.
process_speech_results(c) ==
    /\ dispReady[c] > 0
    /\ spinning \in {NoTask, c}
    /\ IF c \notin active_websockets
       THEN /\ dispReady' = [dispReady EXCEPT ![c] = @ - 1]
            /\ spinning' = NoTask
            /\ spinPass' = 0
            /\ UNCHANGED <<speech_results_queue, out, storePending>>
       ELSE IF speech_results_queue = <<>>
       THEN /\ spinning' = NoTask
            /\ spinPass' = 0
            /\ UNCHANGED <<speech_results_queue, out, storePending, dispReady>>
       ELSE LET result == Head(speech_results_queue)
            IN IF result.session_id = c
               THEN /\ speech_results_queue' = Tail(speech_results_queue)
                    /\ handle_speech_result(result, c)
                    /\ spinning' = NoTask
                    /\ spinPass' = 0
               ELSE /\ speech_results_queue' = PutBack(speech_results_queue, result)
                    /\ spinning' = c
                    /\ spinPass' = 1 - spinPass
                    /\ UNCHANGED <<out, storePending, dispReady>>
    /\ UNCHANGED <<audio, thread_error, botVars, speech_key, sdk, wsState, recognizer, recRunning,
                   active_websockets, active_sessions, putLog, mockWait2,
                   mockWait1>>

\* the rest of _process_final_transcription / _process_realtime_transcription
\* after ws.send_str: the result is appended to the session's transcriptions
FinishFinal(p) ==
    /\ LoopFree
    /\ BagIn(p, storePending)
    /\ storePending' = storePending (-) SetToBag({p})
    /\ active_sessions' = StoreTranscription(active_sessions, p.sid, p.frame)
    /\ IF p.task = "dispatcher"
       THEN dispReady' = [dispReady EXCEPT ![p.sid] = @ + 1]
       ELSE UNCHANGED dispReady
    /\ UNCHANGED <<audio, thread_error, botVars, spinPass, speech_key, sdk, wsState, recognizer, recRunning,
                   active_websockets, speech_results_queue, putLog, out,
                   spinning, mockWait2, mockWait1>>

\* ------------------------------------------------------------- mock task
\* mock_transcription after asyncio.sleep(2): the partial frame; a failing
\* send ends the task with the exception
MockPartial(c) ==
    /\ LoopFree
    /\ mockWait2[c] > 0
    /\ mockWait2' = [mockWait2 EXCEPT ![c] = @ - 1]
    /\ IF CanSend(c)
       THEN /\ out' = [out EXCEPT ![c] = Append(@, PartialFrame(MockPartialText))]
            /\ mockWait1' = [mockWait1 EXCEPT ![c] = @ + 1]
       ELSE UNCHANGED <<out, mockWait1>>
    /\ UNCHANGED <<audio, thread_error, botVars, spinPass, speech_key, sdk, wsState, recognizer, recRunning,
                   active_websockets, active_sessions, speech_results_queue,
                   putLog, dispReady, spinning, storePending>>

\* mock_transcription after asyncio.sleep(1): _process_realtime_transcription
MockFinal(c) ==
    /\ LoopFree
    /\ mockWait1[c] > 0
    /\ mockWait1' = [mockWait1 EXCEPT ![c] = @ - 1]
    /\ IF CanSend(c)
       THEN \E remote \in RemotesNow :
                LET frame == TranslatedFrame(MockFinalText, remote)
                IN /\ out' = [out EXCEPT ![c] = Append(@, frame)]
                   /\ storePending' = storePending (+)
                          SetToBag({Pending(c, frame, "mock")})
       ELSE UNCHANGED <<out, storePending>>
    /\ UNCHANGED <<audio, thread_error, botVars, spinPass, speech_key, sdk, wsState, recognizer, recRunning,
                   active_websockets, active_sessions, speech_results_queue,
                   putLog, dispReady, spinning, mockWait2>>

\* --------------------------------------------------------------- webhook
\* handle_teams_webhook -> _handle_message, 'start transcription' in text
WebhookStart(v) ==
    /\ LoopFree
    /\ active_sessions' = start_transcription_session(active_sessions, v)
    /\ UNCHANGED <<audio, thread_error, botVars, spinPass, speech_key, sdk, wsState, recognizer, recRunning,
                   active_websockets, speech_results_queue, putLog, out,
                   dispReady, spinning, storePending, mockWait2, mockWait1>>

\* handle_teams_webhook -> _handle_message, 'stop transcription' in text
WebhookStop(v) ==
    /\ LoopFree
    /\ active_sessions' = stop_transcription_session(active_sessions, v)
    /\ UNCHANGED <<audio, thread_error, botVars, spinPass, speech_key, sdk, wsState, recognizer, recRunning,
                   active_websockets, speech_results_queue, putLog, out,
                   dispReady, spinning, storePending, mockWait2, mockWait1>>

\* ------------------------------------------------------------------ next
Next ==
    \/ \E c \in Conns : Connect(c)
    \/ \E c \in Conns : ClientClose(c)
    \/ \E c \in Conns : Teardown(c)
    \/ \E c \in Conns : ReceiveStart(c)
    \/ \E c \in Conns : ReceiveStop(c)
    \/ \E c \in Conns, t \in {"partial", "final", "error"} : RecognizerEmit(c, t)
    \/ \E c \in Conns : process_speech_results(c)
    \/ \E p \in BagToSet(storePending) : FinishFinal(p)
    \/ \E c \in Conns : MockPartial(c)
    \/ \E c \in Conns : MockFinal(c)
    \/ \E v \in ConvIds : WebhookStart(v)
    \/ \E v \in ConvIds : WebhookStop(v)

Spec == Init /\ [][Next]_vars

\* what the code's scheduling guarantees: a task of the loop that can run is
\* run; the peer and the recognizers are under no obligation
FairSpec ==
    /\ Spec
    /\ \A c \in Conns : WF_vars(process_speech_results(c))
    /\ \A c \in Conns : WF_vars(Teardown(c))
    /\ \A c \in Conns : WF_vars(MockPartial(c))
    /\ \A c \in Conns : WF_vars(MockFinal(c))
    /\ WF_vars(\E p \in BagToSet(storePending) : FinishFinal(p))

\* ------------------------------------------------------- claim vocabulary
FrameOfEvent(e) ==
    IF e.type = "partial" THEN PartialFrame(e.text)
    ELSE IF e.type = "final" THEN FinalFrame(e.text)
    ELSE ErrorFrame(e.text)

MapFrames(evs) == [i \in 1..Len(evs) |-> FrameOfEvent(evs[i])]

IsLiveResult(f) ==
    /\ f.type \in {"partial_result", "final_result", "error"}
    /\ f.text \notin {MockPartialText, MockFinalText}

\* the frames sent on c for recognition events, in the order sent
LiveFrames(c) == SelectSeq(out[c], IsLiveResult)

\* the events of session c waiting in the queue, in queue order
QueueOf(c) == SelectSeq(speech_results_queue, LAMBDA e : e.session_id = c)

InSeq(x, sq) == \E i \in 1..Len(sq) : sq[i] = x

\* no session but c has been started
OnlySession(c) ==
    \A d \in Conns \ {c} : ~InSeq(StartedFrame, out[d])

\* dispatcher tasks of session c that have not terminated
DispTasks(c) ==
    dispReady[c] + Cardinality({p \in BagToSet(storePending) :
                                   p.sid = c /\ p.task = "dispatcher"})

\* ----------------------------------------------------------------- C1
\* C1: with a single session started and its channel open, the frames sent
\* for its events followed by the frames of its events still queued are
\* exactly the frames of the events put, in the order put: partial_result for
\* a Partial, final_result with translate_text(text) for a Final, none
\* dropped, none reordered.
C1_SingleSessionOrder ==
    \A c \in Conns :
        (OnlySession(c) /\ wsState[c] = "open")
            => LiveFrames(c) \o MapFrames(QueueOf(c)) = MapFrames(putLog[c])

\* Partial(a), Partial(b), Final(c) were put and all three frames are out
C1_Witness ==
    \E c \in Conns :
        /\ OnlySession(c)
        /\ Len(putLog[c]) = 3
        /\ putLog[c][1].type = "partial"
        /\ putLog[c][2].type = "partial"
        /\ putLog[c][3].type = "final"
        /\ LiveFrames(c) = <<PartialFrame(putLog[c][1].text),
                             PartialFrame(putLog[c][2].text),
                             FinalFrame(putLog[c][3].text)>>

\* ----------------------------------------------------------------- C2
\* C2: every result frame sent on a session's channel, every final waiting
\* to be stored for it and every transcript stored for it comes from an
\* event tagged with that session.
C2_Routing ==
    \A c \in Conns :
        /\ \A i \in 1..Len(out[c]) :
               IsLiveResult(out[c][i]) => InSeq(out[c][i], MapFrames(putLog[c]))
        /\ \A p \in BagToSet(storePending) :
               (p.sid = c /\ p.task = "dispatcher")
                   => InSeq(p.frame, MapFrames(putLog[c]))
        /\ \A i \in 1..Len(active_sessions[c].transcriptions) :
               IsLiveResult(active_sessions[c].transcriptions[i])
                   => InSeq(active_sessions[c].transcriptions[i],
                            MapFrames(putLog[c]))

\* both sessions are active, each has events of its own put on the shared
\* queue, and each has had a frame sent
C2_Witness ==
    /\ active_websockets = Conns
    /\ \A c \in Conns : Len(putLog[c]) > 0 /\ Len(LiveFrames(c)) > 0

\* ----------------------------------------------------------------- C3
\* place of a frame's event among the events put for session c
PutIndex(c, f) == CHOOSE k \in 1..Len(putLog[c]) : FrameOfEvent(putLog[c][k]) = f

\* C3: on every session's channel the frames sent for its events are in the
\* order in which those events were put on the queue, whatever the other
\* session's dispatcher has taken off the queue and put back.
C3_PerSessionOrder ==
    \A c \in Conns :
        \A i, j \in 1..Len(LiveFrames(c)) :
            i < j => PutIndex(c, LiveFrames(c)[i]) < PutIndex(c, LiveFrames(c)[j])

\* ----------------------------------------------------------------- C5
\* C5: an event put on the queue is handled at most once (its frame is on
\* the channel at most once) and only on the channel of the session it is
\* tagged with; while that session's channel is open the event is in the
\* queue exactly once or its frame has been sent, so a dispatcher of another
\* session that takes it puts it back.
C5_HandledOnceNeverLost ==
    \A c \in Conns :
        /\ \A i, j \in 1..Len(LiveFrames(c)) :
               i # j => LiveFrames(c)[i] # LiveFrames(c)[j]
        /\ \A d \in Conns \ {c} : \A i \in 1..Len(putLog[c]) :
               ~InSeq(FrameOfEvent(putLog[c][i]), out[d])
        /\ wsState[c] = "open" =>
               \A k \in 1..Len(putLog[c]) :
                   LET inQueue == Cardinality({i \in 1..Len(speech_results_queue) :
                                       speech_results_queue[i] = putLog[c][k]})
                       sent == InSeq(FrameOfEvent(putLog[c][k]), out[c])
                   IN (inQueue = 1 /\ ~sent) \/ (inQueue = 0 /\ sent)

\* the dispatcher of one active session has just put back an event of the
\* other active session and holds the loop
C5_Witness ==
    \E c \in Conns :
        /\ spinning = c
        /\ active_websockets = Conns
        /\ \E d \in Conns \ {c} : Len(QueueOf(d)) > 0 /\ wsState[d] = "open"

\* ----------------------------------------------------------------- C6
\* C6: every stop_transcription frame handled on an open connection is
\* answered with a transcription_stopped frame and leaves the connection
\* open, with the live recognizer and with the scripted fallback.
C6_StopAnswered ==
    [][\A c \in Conns :
           ReceiveStop(c) => /\ wsState'[c] = "open"
                             /\ out'[c] = Append(out[c], StoppedFrame)]_vars

\* ----------------------------------------------------------------- C7
\* a step that stops session id: the webhook stop, the stop_transcription
\* frame, or the teardown of its connection
StopOf(id) ==
    \/ id \in ConvIds /\ WebhookStop(id)
    \/ id \in Conns /\ (ReceiveStop(id) \/ Teardown(id))

C9_OneDispatcherPerActive ==
    \A c \in Conns :
        /\ DispTasks(c) <= 1
        /\ c \notin active_websockets => DispTasks(c) = 0

\* ----------------------------------------------------------------- C10
\* C10: handling stop_transcription never faults (the connection stays as it
\* was), and when the connection holds no running recognizer (never
\* started, already stopped, or the scripted fallback) it changes neither
\* the active table, the registry nor the recognizer.
C10_StopIdempotent ==
    [][\A c \in Conns :
           ReceiveStop(c) =>
               /\ wsState' = wsState
               /\ (recognizer[c] # "live" /\ c \notin active_websockets) =>
                      /\ active_websockets' = active_websockets
                      /\ active_sessions' = active_sessions
                      /\ recognizer' = recognizer
                      /\ recRunning' = recRunning]_vars

\* ----------------------------------------------------------------- C4
\* the k-th event put for session c is a Partial
PartialPut(c, k) == Len(putLog[c]) >= k /\ putLog[c][k].type = "partial"

SessionLive(c) == c \in active_websockets /\ wsState[c] = "open"

\* C4: every Partial put on the queue for a session is eventually sent on
\* that session's channel, unless the session stops being active, whatever
\* the other session's dispatcher finds in the queue.
C4_PartialDelivered ==
    \A c \in Conns, k \in 1..MaxEvents :
        (PartialPut(c, k) /\ SessionLive(c))
            ~> \/ ~SessionLive(c)
               \/ PartialPut(c, k) /\ InSeq(PartialFrame(putLog[c][k].text), out[c])

\* ----------------------------------------------------------------- C8
\* C8: once a session id is out of the active table, every dispatcher task
\* started for it eventually terminates.
C8_DispatchersTerminate ==
    \A c \in Conns :
        (c \notin active_websockets /\ DispTasks(c) > 0) ~> (DispTasks(c) = 0)

\* ----------------------------------------------------------------- C11
Count(sq, f) == Cardinality({i \in 1..Len(sq) : sq[i] = f})

\* start_transcription frames answered on c
Starts(c) == Count(out[c], StartedFrame)

\* frames of the scripted fallback sent on c
MockPartials(c) == Count(out[c], PartialFrame(MockPartialText))
MockFinals(c) == Count(out[c], FinalFrame(MockFinalText))

\* C11: with the recognizer unconfigured the only result frames are those
\* of the scripted fallback, never more partial_result frames than starts
\* nor more final_result frames than partial_result frames, and the n-th
\* start answered on a connection is eventually followed by the n-th
\* partial_result and the n-th final_result unless the peer closes the
\* connection.
C11_ScriptedFallback ==
    /\ [](speech_key = "mock_value" =>
            \A c \in Conns :
                /\ MockPartials(c) <= Starts(c)
                /\ MockFinals(c) <= MockPartials(c)
                /\ \A i \in 1..Len(out[c]) :
                       out[c][i].type \in {"partial_result", "final_result"}
                           => out[c][i] \in {PartialFrame(MockPartialText),
                                             FinalFrame(MockFinalText)})
    /\ \A c \in Conns, n \in 1..MaxCtl :
           (speech_key = "mock_value" /\ wsState[c] = "open" /\ Starts(c) >= n)
               ~> \/ wsState[c] = "closing"
                  \/ MockPartials(c) >= n /\ MockFinals(c) >= n

\* the same without the connections that the handler itself has closed
C11_UnlessClosed ==
    \A c \in Conns, n \in 1..MaxCtl :
        (speech_key = "mock_value" /\ wsState[c] = "open" /\ Starts(c) >= n)
            ~> \/ wsState[c] \in {"closing", "closed"}
               \/ MockPartials(c) >= n /\ MockFinals(c) >= n

\* ------------------------------------------ construction and translation
Keys == {"", "mock_value", "key"}

\* the process before TeamsTranscriptionBot() is called: the environment
\* holds each credential, holds the placeholder for it, or lacks it
EnvInit ==
    /\ speech_key \in Keys
    /\ translator_key \in Keys
    /\ sdk = "ok"
    /\ bot = "unbuilt"
    /\ translation_client = "None"
    /\ Idle

\* __init__: _validate_config raises ValueError for a variable that is not
\* set; _init_translation_service makes the client when the key is a real
\* one (`client` is "None" when making it fails) and None otherwise
Construct(client) ==
    /\ bot = "unbuilt"
    /\ IF speech_key = "" \/ translator_key = ""
       THEN /\ bot' = "ValueError"
            /\ UNCHANGED translation_client
       ELSE /\ bot' = "built"
            /\ translation_client' =
                   IF translator_key # "mock_value" THEN client ELSE "None"
    /\ UNCHANGED <<audio, thread_error, speech_key, sdk, wsState, recognizer, recRunning,
                   active_websockets, active_sessions, speech_results_queue,
                   putLog, out, dispReady, spinning, spinPass, storePending,
                   mockWait2, mockWait1, translator_key, response, summary,
                   clock>>

TranslateRequest(text, remote) ==
    [kind |-> "translate", text |-> text, remote |-> remote]

\* handle_translation_test: POST /api/translate
handle_translation_test(text, remote) ==
    /\ LoopFree
    /\ bot = "built"
    /\ response' =
           IF text = <<>>
           THEN Response(400, TranslateRequest(text, remote), Return(<<>>))
           ELSE LET r == translate_text(text, remote)
                IN Response(IF r.raised THEN 500 ELSE 200,
                            TranslateRequest(text, remote), r)
    /\ UNCHANGED <<audio, thread_error, speech_key, sdk, wsState, recognizer, recRunning,
                   active_websockets, active_sessions, speech_results_queue,
                   putLog, out, dispReady, spinning, spinPass, storePending,
                   mockWait2, mockWait1, bot, translator_key,
                   translation_client, summary, clock>>

\* construction, translation requests, and beside them one connection that
\* starts sessions and has a Partial queued, and the webhook start
TranslateNext ==
    \/ \E client \in {"client", "None"} : Construct(client)
    \/ \E text \in TestTexts, remote \in Remotes :
           handle_translation_test(text, remote)
    \/ bot = "built" /\ Connect("ws1")
    \/ bot = "built" /\ ReceiveStart("ws1")
    \/ bot = "built" /\ speech_results_queue = <<>>
                     /\ RecognizerEmit("ws1", "partial")
    \/ bot = "built" /\ \E v \in ConvIds : WebhookStart(v)

TranslateSpec == EnvInit /\ [][TranslateNext]_vars

\* a translation request has been answered with a translation
Translated ==
    response.request.kind = "translate" /\ response.status # 400

\* ----------------------------------------------------------------- C12
Placeholder(key) == key \in {"", "mock_value"}

\* C12: when a credential is absent or the placeholder, construction does
\* not fail, a start of a session is answered with transcription_started
\* and runs the scripted fallback, and a translation is the table
\* translation.
C12_PlaceholderFallsBack ==
    /\ (bot # "unbuilt" /\ (Placeholder(speech_key) \/ Placeholder(translator_key)))
           => bot = "built"
    /\ Placeholder(speech_key) =>
           \A c \in Conns :
               /\ \A i \in 1..Len(out[c]) : out[c][i].type # "error"
               /\ Starts(c) > 0 => /\ recognizer[c] = "mock_recognizer"
                                   /\ c \notin active_websockets
    /\ (Placeholder(translator_key) /\ Translated) =>
           response.result = Return(enhanced_translate(response.request.text))

\* ----------------------------------------------------------------- C16
\* the characters of the texts of the model
Chars ==
    DOMAIN UpperOf \cup DOMAIN LowerOf
        \cup {" ", "[", "]", "'", "/", "?", ":", "(", ")"}

\* C16: a translation request is answered 200 with a string, nothing
\* raised, whatever the translator's configuration and whatever the remote
\* call and the post-processing do.
C16_TranslateNeverRaises ==
    Translated =>
        /\ response.status = 200
        /\ ~response.result.raised
        /\ response.result.value \in Seq(Chars)

\* a text was translated with the key configured and no client object
C16_Witness ==
    /\ Translated
    /\ translator_key = "key"
    /\ translation_client = "None"
    /\ response.status = 200

\* ----------------------------------------------------------------- C17
\* C17: the translation is the table-based fallback translation of the text
\* when the translator is unconfigured, when the remote call raises, and
\* when the remote call returns no result, no translations or an empty
\* translated text.
C17_FallbackCases ==
    Translated =>
        LET rq == response.request
        IN (\/ Placeholder(translator_key)
            \/ rq.remote.outcome \in {"raises", "no_result", "no_translations"}
            \/ rq.remote.outcome = "translation" /\ rq.remote.raw = <<>>)
               => response.result = Return(enhanced_translate(rq.text))

\* ----------------------------------------------------------------- C18
TableKeys == {translations[k][1] : k \in 1..Len(translations)}

\* C18: the fallback translation of a text holds "[w]" for every word w of
\* the text that is not a key of the phrase table.
C18_UnknownWordBracketed ==
    (Translated /\ Placeholder(translator_key)) =>
        LET words == Split(response.request.text)
        IN \A i \in 1..Len(words) :
               words[i] \notin TableKeys =>
                   Contains(response.result.value,
                            <<"[">> \o words[i] \o <<"]">>)

StartPhrase ==
    <<"s", "t", "a", "r", "t", " ", "t", "r", "a", "n", "s", "c", "r", "i",
      "p", "t", "i", "o", "n">>
StopPhrase ==
    <<"s", "t", "o", "p", " ", "t", "r", "a", "n", "s", "c", "r", "i", "p",
      "t", "i", "o", "n">>

\* texts of message activities
m_start ==
    <<"S", "t", "a", "r", "t", " ", "T", "r", "a", "n", "s", "c", "r", "i",
      "p", "t", "i", "o", "n">>
m_stop ==
    <<"p", "l", "e", "a", "s", "e", " ", "s", "t", "o", "p", " ", "t", "r",
      "a", "n", "s", "c", "r", "i", "p", "t", "i", "o", "n">>
m_both ==
    <<"s", "t", "o", "p", " ", "t", "r", "a", "n", "s", "c", "r", "i", "p",
      "t", "i", "o", "n", ",", " ", "s", "t", "a", "r", "t", " ", "t", "r",
      "a", "n", "s", "c", "r", "i", "p", "t", "i", "o", "n">>
m_hello == <<"h", "e", "l", "l", "o">>

MessageTexts == {m_start, m_stop, m_both, m_hello}

\* the JSON body of a POST /api/messages
Activity(type, text, eventType, id) ==
    [kind |-> "webhook", type |-> type, text |-> text,
     eventType |-> eventType, id |-> id]

Activities ==
    {Activity("message", t, "", v) : t \in MessageTexts, v \in ConvIds}
        \cup {Activity("invoke", <<>>, e, v) :
                  e \in {"callStarted", "callEnded"}, v \in ConvIds}
        \cup {Activity("conversationUpdate", <<>>, "", v) : v \in ConvIds}

\* a _handle_message that starts on the exact phrase only
HandleMessageExact(sessions, text, id) ==
    IF text = StartPhrase
    THEN start_transcription_session(sessions, id)
    ELSE IF text = StopPhrase
    THEN stop_transcription_session(sessions, id)
    ELSE sessions

\* "conversation": null in the body: data.get('conversation', {}) is None
NoConversation == "None"

\* _handle_message: text.lower(); if 'start transcription' in text: start;
\* elif 'stop transcription' in text: stop.  With no conversation object
\* .get('id') raises AttributeError, which the except branch logs.
handle_message(sessions, text, id) ==
    IF Contains(LowerStr(text), StartPhrase)
    THEN IF id = NoConversation THEN sessions
         ELSE start_transcription_session(sessions, id)
    ELSE IF Contains(LowerStr(text), StopPhrase)
    THEN IF id = NoConversation THEN sessions
         ELSE stop_transcription_session(sessions, id)
    ELSE sessions

\* a _handle_call_event that starts a session on callStarted
HandleCallEventStarts(sessions, eventType, id) ==
    IF eventType = "callStarted"
    THEN start_transcription_session(sessions, id)
    ELSE sessions

\* _handle_call_event: callStarted -> _join_call, callEnded -> _leave_call;
\* both write a log line and touch nothing; with "value": null the
\* .get('callId') raises AttributeError, which the except branch logs
handle_call_event(sessions, eventType, id) == sessions

\* a body request.json() cannot parse
NotJson == Activity("<not json>", <<>>, "", "")

\* handle_teams_webhook: POST /api/messages, answered {'status': 'success'},
\* or {'error': ...} with status 500 when request.json() raises
handle_teams_webhook(data) ==
    /\ LoopFree
    /\ IF data = NotJson
       THEN /\ response' = Response(500, data, Raise)
            /\ UNCHANGED active_sessions
       ELSE /\ active_sessions' =
                   IF data.type = "message"
                   THEN handle_message(active_sessions, data.text, data.id)
                   ELSE IF data.type = "invoke"
                   THEN handle_call_event(active_sessions, data.eventType,
                                          data.id)
                   ELSE active_sessions
            /\ response' = Response(200, data, Return(<<>>))
    /\ UNCHANGED <<audio, thread_error, speech_key, sdk, wsState, recognizer, recRunning,
                   active_websockets, speech_results_queue, putLog, out,
                   dispReady, spinning, spinPass, storePending, mockWait2,
                   mockWait1, bot, translator_key, translation_client,
                   summary, clock>>

\* texts the recognizer of the bot hands to _process_transcription
Recognized == {w_mama, <<" ">>}

\* _process_transcription: nothing for a blank text; else translate, stamp
\* with datetime.now() and append to the session's transcriptions
process_transcription(sinhala_text, session_id) ==
    /\ LoopFree
    /\ clock < MaxTranscripts
    /\ IF Strip(sinhala_text) = <<>>
       THEN UNCHANGED <<active_sessions, clock>>
       ELSE /\ active_sessions' =
                   StoreTranscription(active_sessions, session_id,
                       [timestamp |-> clock,
                        original |-> sinhala_text,
                        translated |-> translate_text(sinhala_text, NoRemote).value,
                        session_id |-> session_id])
            /\ clock' = clock + 1
    /\ UNCHANGED <<audio, thread_error, speech_key, sdk, wsState, recognizer, recRunning,
                   active_websockets, speech_results_queue, putLog, out,
                   dispReady, spinning, spinPass, storePending, mockWait2,
                   mockWait1, bot, translator_key, translation_client,
                   response, summary>>

\* a TextBlock of the summary card
TextBlock(kind, text) == [kind |-> kind, text |-> text]

\* transcriptions[-5:]
LastFive(transcriptions) ==
    SubSeq(transcriptions,
           IF Len(transcriptions) > 5 THEN Len(transcriptions) - 4 ELSE 1,
           Len(transcriptions))

\* the blocks of entry i of the slice: original, translation, time, and
\* `if i < len(transcriptions) - 1:` the separator
EntryBlocks(trans, i, n) ==
    <<TextBlock("original", trans.original),
      TextBlock("translation", trans.translated),
      TextBlock("time", trans.timestamp)>>
        \o (IF i < n - 1 THEN <<TextBlock("separator", <<>>)>> ELSE <<>>)

RECURSIVE CardBody(_, _, _)
\* for i, trans in enumerate(transcriptions[-5:]): body.extend(...)
CardBody(shown, i, n) ==
    IF i >= Len(shown) THEN <<>>
    ELSE EntryBlocks(shown[i + 1], i, n) \o CardBody(shown, i + 1, n)

\* _create_summary_card: the body of the card
create_summary_card(transcriptions) ==
    <<TextBlock("title", <<>>)>>
        \o CardBody(LastFive(transcriptions), 0, Len(transcriptions))

\* _start_teams_transcription
start_teams_transcription(v) ==
    /\ active_sessions' = start_transcription_session(active_sessions, v)
    /\ UNCHANGED summary

\* _stop_teams_transcription: stop, then the summary card of the entry's
\* transcriptions ([] when the registry has no entry)
stop_teams_transcription(v) ==
    /\ active_sessions' = stop_transcription_session(active_sessions, v)
    /\ summary' = create_summary_card(active_sessions'[v].transcriptions)

\* on_message_activity: the Bot Framework turn of conversation v
on_message_activity(v, text) ==
    /\ LoopFree
    /\ IF Contains(LowerStr(text), StartPhrase)
       THEN start_teams_transcription(v)
       ELSE IF Contains(LowerStr(text), StopPhrase)
       THEN stop_teams_transcription(v)
       ELSE UNCHANGED <<active_sessions, summary>>
    /\ UNCHANGED <<audio, thread_error, speech_key, sdk, wsState, recognizer, recRunning,
                   active_websockets, speech_results_queue, putLog, out,
                   dispReady, spinning, spinPass, storePending, mockWait2,
                   mockWait1, bot, translator_key, translation_client,
                   response, clock>>

RegistryNext ==
    \/ \E data \in Activities : handle_teams_webhook(data)
    \/ \E text \in Recognized, v \in ConvIds : process_transcription(text, v)
    \/ \E text \in MessageTexts, v \in ConvIds : on_message_activity(v, text)

RegistrySpec == Init /\ [][RegistryNext]_vars

\* ----------------------------------------------------------------- C13
StartMessage(data) ==
    data.type = "message" /\ Contains(LowerStr(data.text), StartPhrase)

\* C13: a webhook message activity whose text contains "start transcription"
\* leaves a session under its conversation id, and the session query for
\* that id is then answered 200 with an entry whose status is active.
C13_StartMessageCreates ==
    [][\A data \in Activities :
           (handle_teams_webhook(data) /\ StartMessage(data)) =>
               /\ get_session_data(data.id)' = 200
               /\ active_sessions'[data.id].status = "active"]_vars

\* the webhook answered a message holding the phrase in another case, and the
\* session of its conversation is active
C13_Witness ==
    /\ response.status = 200
    /\ response.request = Activity("message", m_start, "", "conv1")
    /\ get_session_data("conv1") = 200
    /\ active_sessions["conv1"].status = "active"

\* ----------------------------------------------------------------- C14
\* a step that starts session v: the webhook message or the bot turn
StartStep(v) ==
    \/ \E data \in Activities :
           data.id = v /\ StartMessage(data) /\ handle_teams_webhook(data)
    \/ \E text \in MessageTexts :
           /\ Contains(LowerStr(text), StartPhrase)
           /\ on_message_activity(v, text)

\* C14: a start of a session whose id is in the registry, active or
\* stopped, replaces the entry: the session is active, its transcript list
\* is empty and it has no end time; the webhook answers 200.
C14_RestartReplaces ==
    [][\A v \in ConvIds :
           (StartStep(v) /\ active_sessions[v].present) =>
               /\ active_sessions'[v].present
               /\ active_sessions'[v].status = "active"
               /\ active_sessions'[v].transcriptions = <<>>
               /\ active_sessions'[v].end_time = FALSE
               /\ response'.status \in {0, 200}]_vars

\* a session that held a transcript has been started again: transcripts
\* were stored, and the session is active with none and with no end time
C14_Witness ==
    /\ clock > 0
    /\ active_sessions["conv1"].present
    /\ active_sessions["conv1"].status = "active"
    /\ active_sessions["conv1"].transcriptions = <<>>
    /\ active_sessions["conv1"].end_time = FALSE

\* ----------------------------------------------------------------- C15
\* C15: the invoke activity with eventType callStarted leaves a session for
\* its call id in the registry, and the one with callEnded leaves none.
C15_CallEventsDriveSessions ==
    [][\A data \in Activities :
           (handle_teams_webhook(data) /\ data.type = "invoke") =>
               /\ data.eventType = "callStarted"
                      => active_sessions'[data.id].present
               /\ data.eventType = "callEnded"
                      => ~active_sessions'[data.id].present]_vars

\* ----------------------------------------------------------------- C20
\* the transcripts a card shows: one per "original" block, with the
\* translation and the time that follow it
Shown(body) ==
    LET at == SelectSeq([k \in 1..Len(body) |-> k],
                        LAMBDA k : body[k].kind = "original")
    IN [j \in 1..Len(at) |->
            [original |-> body[at[j]].text,
             translated |-> body[at[j] + 1].text,
             timestamp |-> body[at[j] + 2].text]]

\* what a card shows of a stored transcript
Entry(trans) ==
    [original |-> trans.original, translated |-> trans.translated,
     timestamp |-> trans.timestamp]

\* the summary of a stop shows the last min(n, 5) transcripts, in order
C20_ShowsLastFive ==
    [][\A v \in ConvIds :
           stop_teams_transcription(v) =>
               LET ts == active_sessions'[v].transcriptions
                   last == LastFive(ts)
               IN Shown(summary') = [j \in 1..Len(last) |-> Entry(last[j])]]_vars

\* C20: the summary of a stop shows the last min(n, 5) transcripts in
\* order, and for n >= 5 it is the summary of those last 5 alone.
C20_SummaryWindow ==
    [][\A v \in ConvIds :
           stop_teams_transcription(v) =>
               LET ts == active_sessions'[v].transcriptions
                   last == LastFive(ts)
               IN /\ Shown(summary') = [j \in 1..Len(last) |-> Entry(last[j])]
                  /\ Len(ts) >= 5 => summary' = create_summary_card(last)]_vars

\* ------------------------------------------ webhook requests, with faults
\* the bodies of POST /api/messages: the activities, an activity without a
\* type, a message whose conversation is null, an invoke whose value is
\* null, and a body that is not JSON
Requests ==
    Activities
        \cup {Activity("", <<>>, "", v) : v \in ConvIds}
        \cup {Activity("message", t, "", NoConversation) : t \in {m_start, m_stop}}
        \cup {Activity("invoke", <<>>, "None", "None"), NotJson}

\* webhook requests, beside one connection that starts transcription and
\* has a Partial queued
WebhookNext ==
    \/ \E data \in Requests : handle_teams_webhook(data)
    \/ Connect("ws1")
    \/ ReceiveStart("ws1")
    \/ speech_results_queue = <<>> /\ RecognizerEmit("ws1", "partial")

WebhookSpec == Init /\ [][WebhookNext]_vars

\* ----------------------------------------------------------------- C21
\* parsing the body, handling the message or handling the call event raises
Failed(data) ==
    \/ data = NotJson
    \/ /\ data.type = "message"
       /\ data.id = NoConversation
       /\ \/ Contains(LowerStr(data.text), StartPhrase)
          \/ Contains(LowerStr(data.text), StopPhrase)
    \/ data.type = "invoke" /\ data.eventType = "None"

\* C21: a webhook request is answered once, for the request made: with
\* success when nothing failed, and with an error body and status 500 when
\* parsing the body or handling the message or the call event failed.
C21_WebhookAnswers ==
    [][\A data \in Requests :
           handle_teams_webhook(data) =>
               /\ response'.request = data
               /\ response'.status = IF Failed(data) THEN 500 ELSE 200
               /\ response'.result.raised = Failed(data)]_vars

\* a failed parse is answered 500 and a handled activity 200
C21_ParseFailureAnswered ==
    [][\A data \in Requests :
           handle_teams_webhook(data) =>
               /\ response'.request = data
               /\ response'.status = IF data = NotJson THEN 500 ELSE 200]_vars

\* ----------------------------------------------------------------- C22
\* an activity that is not a message holding one of the two phrases
Ignored(data) ==
    /\ data # NotJson
    /\ ~(/\ data.type = "message"
         /\ \/ Contains(LowerStr(data.text), StartPhrase)
            \/ Contains(LowerStr(data.text), StopPhrase))

\* C22: a webhook activity that is not a message holding "start
\* transcription" or "stop transcription" is answered with success and
\* changes neither the session registry nor the result queue.
C22_OtherActivitiesIgnored ==
    [][\A data \in Requests :
           (handle_teams_webhook(data) /\ Ignored(data)) =>
               /\ response'.status = 200
               /\ UNCHANGED <<active_sessions, speech_results_queue>>]_vars

\* a callStarted event was acknowledged while the registry holds a session
\* and the queue an event
C22_Witness ==
    /\ response.status = 200
    /\ response.request = Activity("invoke", <<>>, "callStarted", "conv1")
    /\ active_sessions["conv1"].present
    /\ speech_results_queue # <<>>

\* ----------------------------------------------------------------- C23
\* the dispatcher of c takes an Error event of its session while the
\* connection can be written
HandlesError(c) ==
    /\ process_speech_results(c)
    /\ c \in active_websockets
    /\ CanSend(c)
    /\ speech_results_queue # <<>>
    /\ Head(speech_results_queue).session_id = c
    /\ Head(speech_results_queue).type = "error"

ReceiveMalformed(c) ==
    /\ LoopFree
    /\ wsState[c] = "open"
    /\ Cleanup(c)
    /\ UNCHANGED <<audio, thread_error, botVars, spinPass, speech_key, sdk, active_sessions,
                   speech_results_queue, putLog, out, dispReady, spinning,
                   storePending, mockWait2, mockWait1>>

\* what PushAudioInputStream.write does on a stream that was closed
ClosedWrites == {"accepted", "raises"}

\* websocket_handler, a BINARY frame: `if audio_stream:
\* audio_stream.write(msg.data)`, exceptions logged.  The handler's
\* audio_stream is None before the first start, the stream of the
\* recognizer it holds after a live start (closed by stop_transcription but
\* still held), and the str "mock_stream" in fallback mode, whose .write
\* raises AttributeError.  The frame is numbered by its arrival.
ReceiveAudio(c, closedWrite) ==
    /\ LoopFree
    /\ wsState[c] = "open"
    /\ audio[c].received < MaxAudio
    /\ LET frame == audio[c].received + 1
           taken == \/ recognizer[c] = "live"
                    \/ recognizer[c] = "stopped" /\ closedWrite = "accepted"
       IN audio' = [audio EXCEPT ![c] =
              [received |-> frame,
               written |-> IF taken THEN Append(@.written, frame)
                           ELSE @.written]]
    /\ UNCHANGED <<thread_error, botVars, spinPass, speech_key, sdk, wsState,
                   recognizer, recRunning, active_websockets, active_sessions,
                   speech_results_queue, putLog, out, dispReady, spinning,
                   storePending, mockWait2, mockWait1>>

\* transcribe_audio_stream.recognized_handler, on the recognizer's thread:
\* asyncio.create_task(self._process_transcription(text, session_id)).
\* The thread runs no event loop, so create_task raises RuntimeError: no
\* task is made and nothing is put on the queue.
recognized_handler(text, session_id) ==
    /\ thread_error' = "RuntimeError"
    /\ UNCHANGED <<audio, botVars, spinPass, speech_key, sdk, wsState,
                   recognizer, recRunning, active_websockets, active_sessions,
                   speech_results_queue, putLog, out, dispReady, spinning,
                   storePending, mockWait2, mockWait1>>

\* every frame and event of one connection, and the recognizer of
\* transcribe_audio_stream
FrameNext ==
    \/ Connect("ws1")
    \/ ClientClose("ws1")
    \/ Teardown("ws1")
    \/ ReceiveStart("ws1")
    \/ ReceiveStop("ws1")
    \/ ReceiveMalformed("ws1")
    \/ \E w \in ClosedWrites : ReceiveAudio("ws1", w)
    \/ \E t \in {"partial", "final", "error"} : RecognizerEmit("ws1", t)
    \/ process_speech_results("ws1")
    \/ \E p \in BagToSet(storePending) : FinishFinal(p)
    \/ MockPartial("ws1")
    \/ MockFinal("ws1")
    \/ \E text \in Recognized, v \in ConvIds : recognized_handler(text, v)

FrameSpec == Init /\ [][FrameNext]_vars

\* ----------------------------------------------------------------- C24
\* C24: a malformed control frame is answered with one error frame, and the
\* connection and its session are as before: the connection stays open,
\* the session stays in the active table and its recognizer is kept.
C24_MalformedSurvives ==
    [][\A c \in Conns :
           ReceiveMalformed(c) =>
               /\ Len(out'[c]) = Len(out[c]) + 1
               /\ out'[c][Len(out'[c])].type = "error"
               /\ wsState'[c] = "open"
               /\ UNCHANGED <<active_websockets, recognizer, recRunning>>]_vars

\* ----------------------------------------------------------------- C29
\* the last control frame answered on c is transcription_started
Active(c) ==
    LET ctl == SelectSeq(out[c], LAMBDA f :
                   f.type \in {"transcription_started", "transcription_stopped"})
    IN ctl # <<>> /\ ctl[Len(ctl)].type = "transcription_started"

\* a binary frame arrives on c
AudioStep(c) == \E w \in ClosedWrites : ReceiveAudio(c, w)

\* C29: a binary frame is written to the input stream exactly when
\* transcription is active on its connection: a frame that arrives between
\* a start and the next stop is written, once and after the frames before
\* it, and a frame that arrives before any start or after a stop is written
\* to no stream.
C29_AudioGated ==
    [][\A c \in Conns :
           AudioStep(c) =>
               audio'[c].written =
                   IF Active(c)
                   THEN Append(audio[c].written, audio'[c].received)
                   ELSE audio[c].written]_vars

\* with a recognizer running, a frame is written after the frames before it
C29_LiveWritten ==
    [][\A c \in Conns :
           (AudioStep(c) /\ recognizer[c] = "live") =>
               audio'[c].written =
                   Append(audio[c].written, audio'[c].received)]_vars

\* before any start no frame is written
C29_NoneBeforeStart ==
    [][\A c \in Conns :
           (AudioStep(c) /\ recognizer[c] = "None") =>
               audio'[c].written = audio[c].written]_vars

\* ----------------------------------------------------------------- C25
\* a recognizer callback runs: one of the three handlers of the duplex
\* connection's recognizer, or the handler of transcribe_audio_stream
CallbackStep ==
    \/ \E c \in Conns, t \in {"partial", "final", "error"} : RecognizerEmit(c, t)
    \/ \E text \in Recognized, v \in ConvIds : recognized_handler(text, v)

\* C25: a recognizer callback puts one event on the queue and does nothing
\* else: it raises nothing on its thread, sends no frame, changes neither
\* the registry nor a transcript, and starts no work of the pipeline.
C25_CallbackOnlyPuts ==
    [][CallbackStep =>
           /\ Len(speech_results_queue') = Len(speech_results_queue) + 1
           /\ SubSeq(speech_results_queue', 1, Len(speech_results_queue))
                  = speech_results_queue
           /\ thread_error' = "None"
           /\ UNCHANGED <<out, active_sessions, storePending, dispReady,
                          spinning, active_websockets>>]_vars

\* the three handlers of the duplex connection's recognizer only put
C25_LocalCallbacksPut ==
    [][\A c \in Conns, t \in {"partial", "final", "error"} :
           RecognizerEmit(c, t) =>
               /\ speech_results_queue' =
                      Append(speech_results_queue,
                             speech_results_queue'[Len(speech_results_queue')])
               /\ UNCHANGED <<out, active_sessions, storePending, dispReady,
                              spinning, active_websockets,
                              thread_error>>]_vars

\* ----------------------------------------------------------------- C26
\* the final_result frames sent on c, in the order sent
FinalsSent(c) == SelectSeq(out[c], LAMBDA f : f.type = "final_result")

\* finals of session c whose frame is sent and whose record is not stored
PendingFor(c) == {p \in BagToSet(storePending) : p.sid = c}

\* C26: the transcript list of a session is the sequence of the
\* final_result frames sent for it, in the order sent, once every final
\* whose frame is sent has been stored: one record per frame, with the
\* frame's original and translated text, and none for a final whose frame
\* could not be sent.
C26_TranscriptMatchesFrames ==
    \A c \in Conns :
        PendingFor(c) = {} =>
            active_sessions[c].transcriptions = FinalsSent(c)

\* the records of the transcript list are the final_result frames sent,
\* each as often as it was sent, whatever the order
C26_SameRecords ==
    \A c \in Conns :
        PendingFor(c) = {} =>
            LET ts == active_sessions[c].transcriptions
                fs == FinalsSent(c)
            IN /\ Len(ts) = Len(fs)
               /\ \A f \in {fs[i] : i \in 1..Len(fs)} :
                      Cardinality({i \in 1..Len(ts) : ts[i] = f})
                          = Cardinality({i \in 1..Len(fs) : fs[i] = f})

\* with one dispatcher task for the session the order is the same too
C26_OneTaskInOrder ==
    \A c \in Conns :
        (PendingFor(c) = {} /\ CtlFramesOn(c) <= 1) =>
            active_sessions[c].transcriptions = FinalsSent(c)

\* ----------------------------------------------------------------- C27
\* the list is as it was, or has one more record at its end
Appended(old, new) ==
    \/ new = old
    \/ Len(new) = Len(old) + 1 /\ SubSeq(new, 1, Len(old)) = old

\* C27 as stated: the transcript list of a session id changes only by
\* appending a record at its end, whatever is done with the id, a start of
\* an id that is in the registry included.
C27_AppendOnly ==
    [][\A v \in Ids :
           Appended(active_sessions[v].transcriptions,
                    active_sessions'[v].transcriptions)]_vars

\* C27: a start of a session id leaves the id with an empty transcript
\* list, and every other step changes the list only by appending a record
\* at its end.
C27_AppendOnlyBetweenStarts ==
    [][\A v \in Ids :
           IF v \in ConvIds /\ StartStep(v)
           THEN active_sessions'[v].transcriptions = <<>>
           ELSE Appended(active_sessions[v].transcriptions,
                         active_sessions'[v].transcriptions)]_vars

\* records were stored for a session, the session was started again, and
\* two records have been appended since
C27_Witness ==
    LET ts == active_sessions["conv1"].transcriptions
    IN /\ Len(ts) = 2
       /\ ts[1].timestamp > 0
       /\ ts[2].timestamp = ts[1].timestamp + 1
       /\ active_sessions["conv1"].status = "stopped"

\* ----------------------------------------------------------------- C28
\* transcription_stopped was the last answer to a control frame on c, or
\* the handler of c has returned and its connection is closed
Stopped(c) ==
    \/ wsState[c] = "closed"
    \/ LET ctl == SelectSeq(out[c], LAMBDA f :
                      f.type \in {"transcription_started",
                                  "transcription_stopped"})
       IN ctl # <<>> /\ ctl[Len(ctl)].type = "transcription_stopped"

\* the partial_result and final_result frames sent on c
ResultFrames(c) ==
    SelectSeq(out[c], LAMBDA f : f.type \in {"partial_result", "final_result"})

\* C28: while a session is stopped (transcription_stopped sent, or the
\* connection closed) and not started again, no partial_result or
\* final_result frame is sent for it and no record is appended to its
\* transcript list.
C28_QuietAfterStop ==
    [][\A c \in Conns :
           (Stopped(c) /\ Stopped(c)') =>
               /\ ResultFrames(c)' = ResultFrames(c)
               /\ active_sessions'[c].transcriptions
                      = active_sessions[c].transcriptions]_vars

\* while a session is stopped no result frame is sent for it
C28_NoFrameAfterStop ==
    [][\A c \in Conns :
           (Stopped(c) /\ Stopped(c)') =>
               ResultFrames(c)' = ResultFrames(c)]_vars

\* ----------------------------------------- finals with a translator
\* the local test server with the translator unconfigured, configured
\* without a client object, or configured with one
TranslatorInit ==
    /\ speech_key \in {"mock_value", "key"}
    /\ sdk = "ok"
    /\ bot = "built"
    /\ translator_key \in {"mock_value", "key"}
    /\ translation_client \in IF translator_key = "key"
                              THEN {"client", "None"} ELSE {"None"}
    /\ Idle

\* one connection, its recognizer's partial and final results, its
\* dispatcher and its scripted task
FinalNext ==
    \/ Connect("ws1")
    \/ ClientClose("ws1")
    \/ Teardown("ws1")
    \/ ReceiveStart("ws1")
    \/ \E t \in {"partial", "final"} : RecognizerEmit("ws1", t)
    \/ process_speech_results("ws1")
    \/ \E p \in BagToSet(storePending) : FinishFinal(p)
    \/ MockPartial("ws1")
    \/ MockFinal("ws1")

FinalSpec == TranslatorInit /\ [][FinalNext]_vars

\* ----------------------------------------------------------------- C30
\* C30: every final_result frame sent has a non-empty original text and a
\* non-empty translated text.
C30_FinalNonEmpty ==
    \A c \in Conns : \A i \in 1..Len(out[c]) :
        out[c][i].type = "final_result" =>
            out[c][i].text # <<>> /\ out[c][i].translated # <<>>

\* every final_result frame sent has a non-empty original text
C30_OriginalNonEmpty ==
    \A c \in Conns : \A i \in 1..Len(out[c]) :
        out[c][i].type = "final_result" => out[c][i].text # <<>>

\* without a reply of the remote service, every final_result frame sent has
\* a non-empty translated text
C30_FallbackNonEmpty ==
    (translator_key = "mock_value" \/ translation_client = "None") =>
        \A c \in Conns : \A i \in 1..Len(out[c]) :
            out[c][i].type = "final_result" => out[c][i].translated # <<>>

\* ----------------------------------------------------------------- C31
\* C31: every entry of the session registry has a lifecycle status, active
\* or stopped, and a creation timestamp.
C31_EntryHasStatusAndStart ==
    \A v \in Ids :
        active_sessions[v].present =>
            /\ active_sessions[v].status \in {"active", "stopped"}
            /\ active_sessions[v].start_time


\* ----------------------------------------------------- partial results
\* the dispatcher of c takes a partial result of its own session
HandlesPartial(c) ==
    /\ process_speech_results(c)
    /\ c \in active_websockets
    /\ speech_results_queue # <<>>
    /\ Head(speech_results_queue).session_id = c
    /\ Head(speech_results_queue).type = "partial"

\* exactly one partial_result frame with the event's text, untranslated, is
\* sent on c; nothing is set aside for the registry and the registry and the
\* transcript lists are as before
ForwardsPartial(c) ==
    /\ out' = [out EXCEPT ![c] =
                  Append(@, PartialFrame(Head(speech_results_queue).text))]
    /\ storePending' = storePending
    /\ active_sessions' = active_sessions
    /\ dispReady' = dispReady

\* C32: handling a Partial event sends exactly one partial_result frame with
\* the event's text unchanged, translates nothing, and leaves the session
\* registry and every transcript list unchanged.
C32_PartialForwarded ==
    [][\A c \in Conns : HandlesPartial(c) => ForwardsPartial(c)]_vars

\* C32 as the code has it: the frame is sent while the connection is open; on
\* a connection that is closing or closed ws.send_str raises, the exception is
\* logged and no frame is sent.  Registry and transcripts are untouched in
\* both cases.
C32_PartialForwardedWhileOpen ==
    [][\A c \in Conns : HandlesPartial(c) =>
           /\ CanSend(c) => ForwardsPartial(c)
           /\ ~CanSend(c) => UNCHANGED <<out, storePending, active_sessions,
                                          dispReady>>]_vars

\* a partial result of the recognizer has been forwarded on its connection
C32_Witness ==
    \E c \in Conns : \E i \in 1..Len(out[c]), j \in 1..Len(putLog[c]) :
        /\ putLog[c][j].type = "partial"
        /\ out[c][i] = PartialFrame(putLog[c][j].text)


\* ------------------------------------------------- exceptions in handling
\* the dispatcher of c takes a result of its own session
HandlesOwn(c) ==
    /\ process_speech_results(c)
    /\ c \in active_websockets
    /\ speech_results_queue # <<>>
    /\ Head(speech_results_queue).session_id = c

\* C33, the handling step: an exception raised while one event is handled (the remote
\* translation failing, the send on the channel failing) does not end the
\* session's dispatcher: the event is consumed, the session's dispatcher tasks
\* are as many as before, and so the events put for the session afterwards
\* are taken by them while the session is active.
C33_ExceptionKeepsDispatcher ==
    [][\A c \in Conns : HandlesOwn(c) =>
           /\ DispTasks(c)' = DispTasks(c)
           /\ speech_results_queue' = Tail(speech_results_queue)]_vars

\* the scheduling of the one connection's tasks: a dispatcher pass or a store
\* that can run is run
FairFinalSpec ==
    /\ FinalSpec
    /\ WF_vars(process_speech_results("ws1"))
    /\ WF_vars(\E p \in BagToSet(storePending) : FinishFinal(p))

\* C33, the events put afterwards: while the session is active its queued
\* results are taken, whether or not the handling of earlier ones raised
C33_StillHandled ==
    ("ws1" \in active_websockets /\ speech_results_queue # <<>>)
        ~> ("ws1" \notin active_websockets \/ speech_results_queue = <<>>)

C33_TranslationFailed ==
    \E c \in Conns : \E i \in 1..Len(out[c]) :
        /\ translator_key = "key"
        /\ translation_client = "None"
        /\ out[c][i].type = "final_result"
        /\ dispReady[c] > 0


\* ------------------------------------------- the translation test bodies
\* test_translation: the JSON object answered for a non-empty text; the
\* service is read off the client object, not off the call's outcome
test_translation(text, remote) ==
    [original |-> text,
     translation |-> translate_text(text, remote).value,
     service |-> IF translation_client # "None" THEN "azure" ELSE "mock"]

\* handle_translation_test: the JSON object answered for a non-empty text
translation_test_body(text, remote) ==
    [original |-> text,
     translation |-> translate_text(text, remote).value,
     timestamp |-> clock]

\* create_app: the handlers added for POST /api/translate, in the order added
TranslateRoutes(text, remote) ==
    <<translation_test_body(text, remote), test_translation(text, remote)>>

\* the router resolves a request to the first resource that matches
Served(text, remote) == TranslateRoutes(text, remote)[1]

\* the translation answered is the remote service's reply (post-processed or
\* not), not the fallback's
ProducedByRemote(remote) ==
    /\ translator_key \notin {"", "mock_value"}
    /\ translation_client # "None"
    /\ remote.outcome \in {"translation", "post_raises"}

\* the body has original, translation and a service field that names the
\* producer of the translation
NamesProducer(body, remote) ==
    /\ {"original", "translation", "service"} \subseteq DOMAIN body
    /\ body.service \in {"azure", "mock"}
    /\ body.service = "azure" <=> ProducedByRemote(remote)

\* a translation request for a non-empty text has been answered
TranslationAnswered ==
    /\ response.request.kind = "translate"
    /\ response.status = 200

\* C34: the translation test endpoint answers a non-empty text with original,
\* translation and a service field, and the service field names the external
\* service exactly when the translation was produced by it and the fallback
\* when the fallback produced it.  Stated for whichever of the handlers added
\* for the path has the field.
C34_ServiceNamesProducer ==
    TranslationAnswered =>
        \E i \in 1..2 :
            NamesProducer(TranslateRoutes(response.request.text,
                                          response.request.remote)[i],
                          response.request.remote)

\* C34 for the handler the router resolves the path to
C34_ServedNamesProducer ==
    TranslationAnswered =>
        NamesProducer(Served(response.request.text, response.request.remote),
                      response.request.remote)

\* the service field of test_translation is right when the client object is
\* absent, and when it is present and the remote call returned a translation
C34_ServiceRightWithoutFailure ==
    (TranslationAnswered
        /\ (translation_client = "None"
               \/ response.request.remote.outcome
                      \in {"translation", "post_raises"})) =>
        NamesProducer(test_translation(response.request.text,
                                       response.request.remote),
                      response.request.remote)


\* ---------------------------------------------------------------- health
\* health_check: 'active_sessions': len(self.active_sessions)
health_check == Cardinality({i \in Ids : active_sessions[i].present})

\* the sessions started and not yet stopped
ActiveSessions ==
    {i \in Ids : active_sessions[i].present /\ active_sessions[i].status = "active"}

\* C35: the active_sessions number of the health endpoint is the number of
\* sessions that are active at that moment, started and not yet stopped.
C35_HealthCountsActive == health_check = Cardinality(ActiveSessions)

\* the number reported is never below the number of active sessions: it
\* counts them, the stopped entries and the entries made by a final result
C35_HealthCountsEntries == health_check >= Cardinality(ActiveSessions)


\* ----------------------------------------------------------------- C36
\* C36: at most one recognizer is running per connection at any time: a
\* start_transcription on a connection that is already transcribing does not
\* leave the earlier recognizer running, and teardown stops every recognizer
\* the connection started.
C36_OneRecognizer ==
    \A c \in Conns :
        /\ recRunning[c] <= 1
        /\ wsState[c] = "closed" => recRunning[c] = 0

\* a connection that received start_transcription once has at most one
\* recognizer running, and none once it is torn down
C36_OneRecognizerPerStart ==
    \A c \in Conns :
        Starts(c) <= 1 =>
            /\ recRunning[c] <= 1
            /\ wsState[c] = "closed" => recRunning[c] = 0


\* ----------------------------------------------------------------- C37
\* a queued result is tagged with a session that is not in active_websockets
HasStaleResult ==
    \E i \in 1..Len(speech_results_queue) :
        speech_results_queue[i].session_id \notin active_websockets

\* C37: results tagged with a session that has been stopped or torn down do
\* not stay in the queue for ever: eventually the queue holds only results of
\* sessions that are active, and no dispatcher is left circulating results
\* that are not its own.
C37_StaleResultsLeave ==
    HasStaleResult ~> (~HasStaleResult /\ LoopFree)

\* a step takes a result out of the queue only when the result's session is
\* in active_websockets: a stale result is taken by nobody
C37_OnlyActiveTaken ==
    [][Len(speech_results_queue') < Len(speech_results_queue) =>
           Head(speech_results_queue).session_id \in active_websockets]_vars

====
